---- MODULE Spec2Model ----
(***************************************************************************)
(* Model of the client-message triage agent (src/ai_logic.py):             *)
(*   - the tolerant JSON parser ArvisoAIAgent._parse_json_response,        *)
(*   - the six-stage processing graph of ArvisoAIAgent and its entry point *)
(*     process_client_message, alone and called repeatedly on one agent,   *)
(*   - ArvisoAIAgent.generate_client_insights and                          *)
(*     _build_conversation_context,                                        *)
(*   - the function API of the first module (timing, triage_message,       *)
(*     generate_response, process_client_message) and the graph of         *)
(*     create_conversation_graph.                                          *)
(* Generated text is a sequence of lexemes (one JSON token, one prose      *)
(* word, one whitespace run or one code-fence marker per element).  JSON   *)
(* values are tagged records [t, v].  Confidences and other numbers are    *)
(* kept in hundredths (0.5 is 50).                                         *)
(***************************************************************************)
EXTENDS Integers, Sequences, FiniteSets, TLC

VARIABLES
    pc,                 \* position of the run
    raw,                \* text handed to _parse_json_response (parser runs); the replies
                        \* of the generation calls so far, in order (agent runs)
    parsed,             \* what _parse_json_response returned (parser runs)
    message_count,      \* state["message_count"]
    enable_human_delay, \* state["enable_human_delay"]
    history_ok,         \* every entry of conversation_history is a mapping with text content
    sentiment_analysis, \* state["sentiment_analysis"]
    concern_level,      \* state["concern_level"]
    flag_decision,      \* state["flag_decision"]
    response_decision,  \* state["response_decision"]
    response_content,   \* state["response_content"]
    final_result,       \* what process_client_message returns
    outcome,            \* per stage that ran: failed, empty, parsed (its call), raised, compiled
    calls,              \* the generation calls issued so far, in order
    slept,              \* the suspensions made so far, in order (hundredths of a second)
    ran,                \* the graph nodes entered so far, in order
    args                \* arguments of the operation under way, other than the ones above

vars == <<pc, raw, parsed, message_count, enable_human_delay, history_ok,
          sentiment_analysis, concern_level, flag_decision, response_decision,
          response_content, final_result, outcome, calls, slept, ran, args>>

-----------------------------------------------------------------------------
(* JSON values, as json.loads builds them *)

JStr(s)  == [t |-> "str",  v |-> s]
JNum(n)  == [t |-> "num",  v |-> n]
JBool(b) == [t |-> "bool", v |-> b]
JNull    == [t |-> "null", v |-> "null"]
JArr(a)  == [t |-> "arr",  v |-> a]
JObj(o)  == [t |-> "obj",  v |-> o]

EmptyMap == [k \in {} |-> JNull]

\* dict.get(key, default)
Get(d, k, default) == IF k \in DOMAIN d THEN d[k] ELSE default

\* d[key] = value
Put(d, k, x) == [j \in (DOMAIN d) \cup {k} |-> IF j = k THEN x ELSE d[j]]

-----------------------------------------------------------------------------
(* Lexemes *)

Q(s) == "\"" \o s \o "\""

WS     == " "
\* the code-fence markers (three backquotes, with and without the json label)
FENCEJ == "~~~json"
FENCE  == "~~~"

StrContents ==
    {"a", "b", "sentiment", "confidence", "reasoning", "pattern_change",
     "concern_level", "should_flag", "should_respond", "pattern_context",
     "conversation_context", "response_type", "tone",
     "positive", "neutral", "negative", "ecstatic",
     "low", "medium", "high", "critical", "severe",
     "Yes", "yes", "no", "r1", "r2", "r3", "p1", "p2", "p3",
     "message", "category", "insight_type", "m1", "m2", "m3", "m4",
     "satisfaction", "communication",
     "action", "respond", "flag", "ignore", "risk_level",
     "emotional_indicators", "sentiment_trend", "stable", "escalating",
     "flag_reasons", "urgency_level", "empathetic", "casual", ""}

StrLexemes == {Q(s) : s \in StrContents}

NumLexemes == {"0", "1", "2", "0.3", "0.5", "0.7", "0.9"}

\* float(lexeme) * 100
NumValue(tok) ==
    CASE tok = "0"   -> 0
      [] tok = "1"   -> 100
      [] tok = "2"   -> 200
      [] tok = "0.3" -> 30
      [] tok = "0.5" -> 50
      [] tok = "0.7" -> 70
      [] tok = "0.9" -> 90

ScalarLexemes == StrLexemes \cup NumLexemes \cup {"true", "false", "null"}

\* the Python value of a scalar lexeme
ScalarValue(tok) ==
    CASE tok = "true"       -> JBool(TRUE)
      [] tok = "false"      -> JBool(FALSE)
      [] tok = "null"       -> JNull
      [] tok \in NumLexemes -> JNum(NumValue(tok))
      [] tok \in StrLexemes -> JStr(CHOOSE s \in StrContents : Q(s) = tok)

-----------------------------------------------------------------------------
(* str operations on lexeme sequences; indices are Python's (0-based, -1 = absent) *)

\* Only({e(x) : x \in {d}}) is e(d) with d evaluated once
Only(S) == CHOOSE x \in S : TRUE

RECURSIVE LStrip(_)
LStrip(s) ==
    IF s # <<>> /\ Head(s) = WS THEN Only({LStrip(t) : t \in {Tail(s)}}) ELSE s

RECURSIVE RStrip(_)
RStrip(s) ==
    IF s # <<>> /\ s[Len(s)] = WS
    THEN Only({RStrip(t) : t \in {SubSeq(s, 1, Len(s) - 1)}})
    ELSE s

\* str.strip()
Strip(s) == RStrip(LStrip(s))

\* str.find(sub, start) for the lexemes in subs
PyFind(s, subs, start) ==
    LET hits == {i \in (start + 1)..Len(s) : s[i] \in subs}
    IN  IF hits = {} THEN -1 ELSE (CHOOSE i \in hits : \A j \in hits : i <= j) - 1

\* str.rfind(sub)
PyRFind(s, subs) ==
    LET hits == {i \in 1..Len(s) : s[i] \in subs}
    IN  IF hits = {} THEN -1 ELSE (CHOOSE i \in hits : \A j \in hits : i >= j) - 1

\* s[a:b] for a, b >= 0
PySlice(s, a, b) == SubSeq(s, a + 1, b)

-----------------------------------------------------------------------------
(* json.loads *)

Fail == [ok |-> FALSE, val |-> JNull, pos |-> 0]

RECURSIVE SkipWs(_, _)
SkipWs(s, i) == IF i <= Len(s) /\ s[i] = WS THEN SkipWs(s, i + 1) ELSE i

RECURSIVE ParseValue(_, _)
RECURSIVE ParseElems(_, _, _)
RECURSIVE ParseMembers(_, _, _)

\* one JSON value starting at or after position i0 (1-based); pos is the position after it
ParseValue(s, i0) ==
    Only({ IF i > Len(s) THEN Fail
           ELSE IF s[i] \in ScalarLexemes
                THEN [ok |-> TRUE, val |-> ScalarValue(s[i]), pos |-> i + 1]
           ELSE IF s[i] \in {"[", "{"} THEN
                Only({ IF j <= Len(s) /\ s[i] = "[" /\ s[j] = "]"
                            THEN [ok |-> TRUE, val |-> JArr(<<>>), pos |-> j + 1]
                       ELSE IF j <= Len(s) /\ s[i] = "{" /\ s[j] = "}"
                            THEN [ok |-> TRUE, val |-> JObj(EmptyMap), pos |-> j + 1]
                       ELSE IF s[i] = "[" THEN ParseElems(s, j, <<>>)
                       ELSE ParseMembers(s, j, EmptyMap)
                     : j \in {SkipWs(s, i + 1)} })
           ELSE Fail
         : i \in {SkipWs(s, i0)} })

\* the elements of an array, the first of them starting at i
ParseElems(s, i, acc) ==
    Only({ IF ~e.ok THEN Fail
           ELSE Only({ IF j > Len(s) THEN Fail
                       ELSE IF s[j] = "]"
                            THEN [ok |-> TRUE, val |-> JArr(Append(acc, e.val)), pos |-> j + 1]
                       ELSE IF s[j] = ","
                            THEN Only({ ParseElems(s, next, more)
                                        : next \in {j + 1}, more \in {Append(acc, e.val)} })
                       ELSE Fail
                     : j \in {SkipWs(s, e.pos)} })
         : e \in {ParseValue(s, i)} })

\* the members of an object, the first key at i (whitespace already skipped)
ParseMembers(s, i, acc) ==
    IF i > Len(s) \/ s[i] \notin StrLexemes THEN Fail
    ELSE Only({ IF c > Len(s) \/ s[c] # ":" THEN Fail
                ELSE Only({ IF ~e.ok THEN Fail
                            ELSE Only({ IF j > Len(s) THEN Fail
                                        ELSE IF s[j] = "}"
                                             THEN [ok |-> TRUE,
                                                   val |-> JObj(Put(acc, ScalarValue(s[i]).v, e.val)),
                                                   pos |-> j + 1]
                                        ELSE IF s[j] = ","
                                             THEN Only({ ParseMembers(s, next, more)
                                                         : next \in {SkipWs(s, j + 1)},
                                                           more \in {Put(acc, ScalarValue(s[i]).v, e.val)} })
                                        ELSE Fail
                                      : j \in {SkipWs(s, e.pos)} })
                          : e \in {ParseValue(s, c + 1)} })
              : c \in {SkipWs(s, i + 1)} })

\* json.loads(s): ok = FALSE is json.JSONDecodeError
JsonLoads(s) ==
    Only({ IF r.ok /\ SkipWs(s, r.pos) > Len(s) THEN [ok |-> TRUE, val |-> r.val]
           ELSE [ok |-> FALSE, val |-> JNull]
         : r \in {ParseValue(s, 1)} })

IsDict(x) == x.t = "obj"
IsList(x) == x.t = "arr"

-----------------------------------------------------------------------------
(* ArvisoAIAgent._parse_json_response *)

\* the outcome of one attempt of the parser: it returned val, it raised, or it fell through
Return(x)   == [ret |-> TRUE,  raised |-> FALSE, val |-> x]
Raise       == [ret |-> FALSE, raised |-> TRUE,  val |-> JNull]
FallThrough == [ret |-> FALSE, raised |-> FALSE, val |-> JNull]

\* PyIndex0 taking the last element instead of the first
PyIndexLast(lst) == IF Len(lst) > 0 THEN Return(lst[Len(lst)]) ELSE Raise

\* parsed[0]: IndexError on an empty list
PyIndex0(lst) == IF Len(lst) > 0 THEN Return(lst[1]) ELSE Raise

\* FirstDictOf without the isinstance check on the first element
FirstDictOfUnchecked(lst) ==
    LET first == PyIndex0(lst) IN
    IF first.raised THEN Raise ELSE Return(first.val)

\* lines 2052-2058 and 2089-2095: a non-empty list gives its first element if a dict, else {}
FirstDictOf(lst) ==
    LET first == PyIndex0(lst) IN
    IF first.raised THEN Raise
    ELSE IF IsDict(first.val) THEN Return(first.val)
    ELSE Return(JObj(EmptyMap))

\* lines 2046-2063: the whole response as JSON
TryWhole(response) ==
    Only({ IF ~p.ok THEN FallThrough
           ELSE IF IsDict(p.val) THEN Return(p.val)
           ELSE IF IsList(p.val) /\ Len(p.val.v) > 0 THEN FirstDictOf(p.val.v)
           ELSE Return(JObj(EmptyMap))
         : p \in {JsonLoads(response)} })

\* lines 2065-2078: the interior of a fenced json block
TryFence(response) ==
    IF PyFind(response, {FENCEJ}, 0) = -1 THEN FallThrough
    ELSE LET start == PyFind(response, {FENCEJ}, 0) + 1
             end   == PyFind(response, {FENCE, FENCEJ}, start)
         IN  IF end = -1 THEN FallThrough
             ELSE Only({ IF ~p.ok THEN FallThrough
                         ELSE IF IsDict(p.val) THEN Return(p.val)
                         ELSE IF IsList(p.val) /\ Len(p.val.v) > 0 /\ IsDict(p.val.v[1])
                              THEN Return(p.val.v[1])
                         ELSE FallThrough
                       : p \in {JsonLoads(Strip(PySlice(response, start, end)))} })

\* lines 2080-2098: the span from the first [ to the last ]
TryArray(response) ==
    LET array_start == PyFind(response, {"["}, 0)
        array_end   == PyRFind(response, {"]"}) + 1
    IN  IF array_start # -1 /\ array_end # -1 THEN
            Only({ IF ~p.ok THEN FallThrough
                   ELSE IF IsList(p.val) /\ Len(p.val.v) > 0 THEN FirstDictOf(p.val.v)
                   ELSE IF IsDict(p.val) THEN Return(p.val)
                   ELSE Return(JObj(EmptyMap))
                 : p \in {JsonLoads(PySlice(response, array_start, array_end))} })
        ELSE FallThrough

\* lines 2100-2114: the span from the first { to the last }
TryObject(response) ==
    LET obj_start == PyFind(response, {"{"}, 0)
        obj_end   == PyRFind(response, {"}"}) + 1
    IN  IF obj_start # -1 /\ obj_end # -1 THEN
            Only({ IF ~p.ok THEN FallThrough
                   ELSE IF IsDict(p.val) THEN Return(p.val)
                   ELSE Return(JObj(EmptyMap))
                 : p \in {JsonLoads(PySlice(response, obj_start, obj_end))} })
        ELSE FallThrough

\* the first attempt, in order, that returned or raised; {} when none did
FirstDecided(attempts) ==
    LET decided == {k \in 1..Len(attempts) : attempts[k].ret \/ attempts[k].raised}
    IN  IF decided = {} THEN Return(JObj(EmptyMap))
        ELSE attempts[CHOOSE k \in decided : \A j \in decided : k <= j]

\* _parse_json_response(response), lines 2044-2118
ParseJsonResponse(text) ==
    Only({ Only({ FirstDecided(attempts)
                : attempts \in {<<TryWhole(response), TryFence(response),
                                  TryArray(response), TryObject(response)>>} })
         : response \in {Strip(text)} })

-----------------------------------------------------------------------------
(* Texts *)

\* longest text enumerated exhaustively over Alphabet
MaxTextLen == 3

Alphabet == {"{", "}", "[", "]", ":", ",", Q("a"), "1", "Sure", WS, FENCEJ, FENCE}

ShortTexts == UNION {[1..n -> Alphabet] : n \in 0..MaxTextLen}

KV(k, vtok) == <<Q(k), ":">> \o vtok

RECURSIVE JoinComma(_)
JoinComma(parts) ==
    IF parts = <<>> THEN <<>>
    ELSE IF Len(parts) = 1 THEN parts[1]
    ELSE parts[1] \o <<",">> \o Only({JoinComma(rest) : rest \in {Tail(parts)}})

ObjText(members) == <<"{">> \o JoinComma(members) \o <<"}">>
ArrText(elems)   == <<"[">> \o JoinComma(elems) \o <<"]">>

\* well-formed JSON documents
Docs ==
    { ObjText(<<KV("a", <<"1">>)>>),
      ObjText(<<KV("a", <<"1">>), KV("b", <<"2">>)>>),
      ObjText(<<KV("a", ArrText(<<(<<"1">>), (<<"2">>)>>))>>),
      ObjText(<<>>),
      ArrText(<<ObjText(<<KV("a", <<"1">>)>>), ObjText(<<KV("b", <<"2">>)>>)>>),
      ArrText(<<(<<"1">>), (<<"2">>)>>),
      ArrText(<<ArrText(<<ObjText(<<KV("a", <<"1">>)>>)>>)>>),
      ArrText(<<>>),
      <<"1">>, <<Q("a")>>, <<"null">>, <<"true">> }

\* a document as generated text may carry it: bare, padded, fenced, in prose, cut short
Wrappings(d) ==
    { d,
      <<WS>> \o d \o <<WS>>,
      <<FENCEJ, WS>> \o d \o <<WS, FENCE>>,
      <<"Sure", WS, FENCEJ, WS>> \o d \o <<WS, FENCE, WS, "Sure">>,
      <<FENCEJ, WS>> \o d,
      <<"Sure", WS>> \o d,
      d \o <<WS, "Sure">>,
      <<"Sure", WS>> \o d \o <<WS, "Sure">>,
      SubSeq(d, 1, Len(d) - 1) }

ParseInputs == ShortTexts \cup UNION {Wrappings(d) : d \in Docs}

-----------------------------------------------------------------------------
(* The parser alone: one call of _parse_json_response on one text *)

NotRun == FallThrough

\* no argument beyond message_count, enable_human_delay and the history
NoArgs == [a \in {} |-> 0]

Idle ==
    /\ message_count = 0
    /\ enable_human_delay = FALSE
    /\ history_ok = TRUE
    /\ sentiment_analysis = JNull
    /\ concern_level = JNull
    /\ flag_decision = JNull
    /\ response_decision = JNull
    /\ response_content = JNull
    /\ final_result = JNull
    /\ outcome = [s \in {} |-> "none"]
    /\ calls = <<>>
    /\ slept = <<>>
    /\ ran = <<>>
    /\ args = NoArgs

InitParse ==
    /\ pc = "parse_ready"
    /\ raw \in ParseInputs
    /\ parsed = NotRun
    /\ Idle

Parse ==
    /\ pc = "parse_ready"
    /\ UNCHANGED args
    /\ parsed' = ParseJsonResponse(raw)
    /\ pc' = "parse_done"
    /\ UNCHANGED <<raw, message_count, enable_human_delay, history_ok,
                   sentiment_analysis, concern_level, flag_decision, response_decision,
                   response_content, final_result, outcome, calls, slept, ran>>

NextParse == Parse

SpecParse == InitParse /\ [][NextParse]_vars

-----------------------------------------------------------------------------
(* Python value operations the stages use *)

\* bool(x)
Truthy(x) ==
    CASE x.t = "bool" -> x.v
      [] x.t = "null" -> FALSE
      [] x.t = "num"  -> x.v # 0
      [] x.t = "str"  -> x.v # ""
      [] x.t = "arr"  -> Len(x.v) > 0
      [] x.t = "obj"  -> DOMAIN x.v # {}

\* s.lower()
Lower(s) == IF s = "Yes" THEN "yes" ELSE IF s = "Thank" THEN "thank" ELSE s

\* str(x).lower()
PyStrLower(x) ==
    CASE x.t = "bool" -> IF x.v THEN "true" ELSE "false"
      [] x.t = "null" -> "none"
      [] x.t = "num"  -> CHOOSE tok \in NumLexemes : NumValue(tok) = x.v
      [] x.t = "str"  -> Lower(x.v)
      [] x.t = "arr"  -> "[...]"
      [] x.t = "obj"  -> "{...}"

\* min(a, b, c): TypeError unless the three compare; numbers by value, equal strings
PyMin3(a, b, c) ==
    IF a.t = "num" /\ b.t = "num" /\ c.t = "num" THEN
        Return(JNum(IF a.v <= b.v /\ a.v <= c.v THEN a.v
                    ELSE IF b.v <= c.v THEN b.v ELSE c.v))
    ELSE IF a.t = "str" /\ b = a /\ c = a THEN Return(a)
    ELSE Raise

-----------------------------------------------------------------------------
(* What the generation client may answer, per stage *)

Prose == <<"Sure", WS, "Sure">>

SentimentAnswers ==
    { ObjText(<<KV("sentiment", <<Q("positive")>>), KV("confidence", <<"0.9">>),
                KV("emotional_indicators", ArrText(<<>>)),
                KV("sentiment_trend", <<Q("stable")>>),
                KV("pattern_change", <<Q("escalating")>>),
                KV("reasoning", <<Q("r1")>>)>>),
      ObjText(<<KV("sentiment", <<Q("ecstatic")>>), KV("confidence", <<"0.3">>),
                KV("reasoning", <<Q("")>>), KV("pattern_change", <<Q("escalating")>>)>>),
      <<"Sure", WS>> \o ObjText(<<KV("sentiment", <<Q("negative")>>),
                                  KV("reasoning", <<Q("r1")>>)>>),
      Prose }

ConcernAnswers ==
    { ObjText(<<KV("concern_level", <<Q("low")>>)>>),
      ArrText(<<ObjText(<<KV("concern_level", <<Q("high")>>)>>)>>),
      ObjText(<<KV("concern_level", <<Q("critical")>>)>>),
      ObjText(<<KV("concern_level", <<Q("severe")>>)>>),
      Prose }

FlagAnswers ==
    { ObjText(<<KV("should_flag", <<"true">>), KV("flag_reasons", ArrText(<<>>)),
                KV("urgency_level", <<Q("high")>>), KV("pattern_context", <<Q("p2")>>),
                KV("reasoning", <<Q("r2")>>), KV("confidence", <<"0.7">>)>>),
      <<FENCEJ, WS>> \o ObjText(<<KV("should_flag", <<"false">>),
                                  KV("confidence", <<"0.9">>)>>) \o <<WS, FENCE>>,
      ObjText(<<KV("should_flag", <<Q("Yes")>>)>>),
      ObjText(<<KV("should_flag", <<"false">>), KV("confidence", <<Q("high")>>)>>),
      Prose }

RespondAnswers ==
    { ObjText(<<KV("should_respond", <<"true">>), KV("response_type", <<Q("empathetic")>>),
                KV("tone", <<Q("casual")>>), KV("conversation_context", <<Q("p3")>>),
                KV("reasoning", <<Q("r3")>>), KV("confidence", <<"0.5">>)>>),
      ObjText(<<KV("should_respond", <<"false">>), KV("confidence", <<"0.9">>)>>),
      ObjText(<<KV("should_respond", <<Q("no")>>)>>),
      Prose }

QUOTE == "\""

\* reply texts of the chat model
GenerateAnswers ==
    { <<"Hello">>, <<WS, QUOTE, "Hello", QUOTE, WS>> }

\* the generation call raised, or returned text
Failed == [failed |-> TRUE, text |-> <<>>]
Replies(answers) == {Failed} \cup {[failed |-> FALSE, text |-> a] : a \in answers}

\* what a stage got from its call: nothing, an empty mapping, or a mapping with keys
OutcomeOf(reply) ==
    IF reply.failed THEN "failed"
    ELSE Only({ IF p.raised THEN "failed"
                ELSE IF IsDict(p.val) /\ DOMAIN p.val.v = {} THEN "empty"
                ELSE "parsed"
              : p \in {ParseJsonResponse(reply.text)} })

-----------------------------------------------------------------------------
(* The stages of the processing graph, as functions of the call's reply *)

\* lines 1345-1352: stored when the sentiment call or its handling raised
SentimentOnError ==
    JObj([k \in {"sentiment", "confidence", "emotional_indicators", "key_topics",
                 "sentiment_trend", "reasoning"} |->
            CASE k = "sentiment"       -> JStr("neutral")
              [] k = "confidence"      -> JNum(50)
              [] k = "sentiment_trend" -> JStr("stable")
              [] k = "reasoning"       -> JStr("Analysis failed, defaulting to neutral")
              [] OTHER                 -> JArr(<<>>)])

\* lines 1323-1331: used when the parser's result is not a dict
SentimentNotDict ==
    JObj([k \in {"sentiment", "confidence", "emotional_indicators", "key_topics",
                 "sentiment_trend", "pattern_change", "reasoning"} |->
            CASE k = "sentiment"       -> JStr("neutral")
              [] k = "confidence"      -> JNum(50)
              [] k = "sentiment_trend" -> JStr("stable")
              [] k = "pattern_change"  -> JStr("consistent")
              [] k = "reasoning"       -> JStr("Failed to parse sentiment analysis")
              [] OTHER                 -> JArr(<<>>)])

\* SentimentFromParsed without the check of the sentiment value
SentimentFromParsedUnchecked(p) == IF IsDict(p) THEN p ELSE SentimentNotDict

\* lines 1320-1339: from the parser's result to the stored sentiment result
SentimentFromParsed(p) ==
    LET sentiment_result == IF IsDict(p) THEN p ELSE SentimentNotDict
        sentiment == Get(sentiment_result.v, "sentiment", JStr("neutral"))
    IN  IF sentiment.t = "str" /\ sentiment.v \in {"positive", "neutral", "negative"}
        THEN sentiment_result
        ELSE JObj(Put(sentiment_result.v, "sentiment", JStr("neutral")))

\* _analyze_sentiment, lines 1312-1352: the value stored in state["sentiment_analysis"]
SentimentResult(reply) ==
    IF reply.failed THEN SentimentOnError
    ELSE Only({ IF p.raised THEN SentimentOnError ELSE SentimentFromParsed(p.val)
              : p \in {ParseJsonResponse(reply.text)} })

\* lines 1457-1461: used when the parser's result is not a dict
ConcernNotDict ==
    JObj([k \in {"concern_level", "reasoning", "confidence"} |->
            CASE k = "concern_level" -> JStr("medium")
              [] k = "reasoning"     -> JStr("Failed to parse concern assessment")
              [] k = "confidence"    -> JNum(50)])

\* lines 1454-1469: from the parser's result to the stored concern level
ConcernFromParsed(p) ==
    LET concern_result == IF IsDict(p) THEN p ELSE ConcernNotDict
        level == Get(concern_result.v, "concern_level", JStr("medium"))
    IN  IF level.t = "str" /\ level.v \in {"low", "medium", "high", "critical"}
        THEN level
        ELSE JStr("medium")

\* _assess_concern_level, lines 1446-1477: the value stored in state["concern_level"]
ConcernResult(reply) ==
    IF reply.failed THEN JStr("medium")
    ELSE Only({ IF p.raised THEN JStr("medium") ELSE ConcernFromParsed(p.val)
              : p \in {ParseJsonResponse(reply.text)} })

\* lines 1616-1622: stored when the flag call or its handling raised
FlagOnError ==
    JObj([k \in {"should_flag", "flag_reasons", "urgency_level", "reasoning", "confidence"} |->
            CASE k = "should_flag"   -> JBool(TRUE)
              [] k = "flag_reasons"  -> JArr(<<JStr("Analysis error - defaulting to human review")>>)
              [] k = "urgency_level" -> JStr("medium")
              [] k = "reasoning"     -> JStr("Decision failed, defaulting to human review for safety")
              [] k = "confidence"    -> JNum(50)])

\* lines 1593-1599: used when the parser's result is not a dict
FlagNotDict ==
    JObj([k \in {"should_flag", "flag_reasons", "urgency_level", "reasoning", "confidence"} |->
            CASE k = "should_flag"   -> JBool(FALSE)
              [] k = "flag_reasons"  -> JArr(<<>>)
              [] k = "urgency_level" -> JStr("low")
              [] k = "reasoning"     -> JStr("Failed to parse flag decision")
              [] k = "confidence"    -> JNum(50)])

\* lines 1590-1608: from the parser's result to the stored flag decision
FlagFromParsed(p) ==
    LET flag_result == IF IsDict(p) THEN p ELSE FlagNotDict
        should_flag == Get(flag_result.v, "should_flag", JBool(FALSE))
    IN  IF should_flag.t = "bool" THEN flag_result
        ELSE JObj(Put(flag_result.v, "should_flag",
                      JBool(PyStrLower(should_flag) \in {"true", "1", "yes"})))

\* _decide_flag, lines 1582-1622: the value stored in state["flag_decision"]
FlagResult(reply) ==
    IF reply.failed THEN FlagOnError
    ELSE Only({ IF p.raised THEN FlagOnError ELSE FlagFromParsed(p.val)
              : p \in {ParseJsonResponse(reply.text)} })

\* lines 1734-1740: stored when the respond call or its handling raised
RespondOnError ==
    JObj([k \in {"should_respond", "response_type", "tone", "reasoning", "confidence"} |->
            CASE k = "should_respond" -> JBool(FALSE)
              [] k = "response_type"  -> JStr("ignore")
              [] k = "tone"           -> JStr("professional")
              [] k = "reasoning"      -> JStr("Decision failed, defaulting to human review")
              [] k = "confidence"     -> JNum(50)])

\* lines 1723-1728: from the parser's result to the stored response decision
RespondFromParsed(p) == IF IsDict(p) THEN p ELSE JObj(EmptyMap)

\* _decide_response, lines 1715-1740: the value stored in state["response_decision"]
RespondResult(reply) ==
    IF reply.failed THEN RespondOnError
    ELSE Only({ IF p.raised THEN RespondOnError ELSE RespondFromParsed(p.val)
              : p \in {ParseJsonResponse(reply.text)} })

\* lines 1803-1808: strip the reply and drop one pair of enclosing quotes
CleanReply(text) ==
    LET c == Strip(text) IN
    IF c # <<>> /\ c[1] = QUOTE /\ c[Len(c)] = QUOTE THEN SubSeq(c, 2, Len(c) - 1) ELSE c

\* line 1817: the canned reply used when the reply call fails
FallbackReply == <<"Hi", WS, "there", WS, "Thank you for reaching out.">>

\* WantsReply without the early return: a reply is generated whatever was decided
WantsReplyAlways(decision) == TRUE

\* _generate_response_content, line 1750: whether the stage asks for a reply at all
WantsReply(decision) == Truthy(Get(decision.v, "should_respond", JBool(FALSE)))

\* ContentResult without the canned reply: a failed call leaves the slot empty
ContentResultNoFallback(reply) ==
    IF reply.failed THEN JNull ELSE JStr(CleanReply(reply.text))

\* _generate_response_content, lines 1797-1817: the value stored in state["response_content"]
ContentResult(reply) ==
    IF reply.failed THEN JStr(FallbackReply) ELSE JStr(CleanReply(reply.text))

\* f"{x}"
FStr(x) ==
    CASE x.t = "str"  -> x.v
      [] x.t = "num"  -> CHOOSE tok \in NumLexemes : NumValue(tok) = x.v
      [] x.t = "bool" -> IF x.v THEN "True" ELSE "False"

RECURSIVE JoinBar(_)
\* " | ".join(parts)
JoinBar(parts) ==
    IF parts = <<>> THEN ""
    ELSE IF Len(parts) = 1 THEN parts[1]
    ELSE parts[1] \o " | " \o Only({JoinBar(rest) : rest \in {Tail(parts)}})

\* Part without the test: the label is appended whether or not the value is there
PartUnconditional(label, d, key) == <<label \o FStr(Get(d, key, JStr("")))>>

\* one "if d.get(key): reasoning_parts.append(label + d[key])" of _compile_reasoning
Part(label, d, key) ==
    IF Truthy(Get(d, key, JNull)) THEN <<label \o FStr(d[key])>> ELSE <<>>

\* _compile_reasoning, lines 1858-1887
CompileReasoning(sentiment_data, flag, respond) ==
    JoinBar(   Part("Sentiment Analysis: ", sentiment_data.v, "reasoning")
            \o Part("Pattern Change: ", sentiment_data.v, "pattern_change")
            \o Part("Flag Decision: ", flag.v, "reasoning")
            \o Part("Pattern Context: ", flag.v, "pattern_context")
            \o Part("Response Decision: ", respond.v, "reasoning")
            \o Part("Conversation Context: ", respond.v, "conversation_context"))

\* CompileAction with the two tests in the other order: respond before flag
CompileActionRespondFirst(flag, respond) ==
    IF Truthy(Get(respond.v, "should_respond", JBool(FALSE))) THEN "respond"
    ELSE IF Truthy(Get(flag.v, "should_flag", JBool(FALSE))) THEN "flag"
    ELSE "ignore"

\* _compile_results, lines 1828-1834
CompileAction(flag, respond) ==
    IF Truthy(Get(flag.v, "should_flag", JBool(FALSE))) THEN "flag"
    ELSE IF Truthy(Get(respond.v, "should_respond", JBool(FALSE))) THEN "respond"
    ELSE "ignore"

\* _compile_results, lines 1844-1848
CompileConfidence(sentiment_data, flag, respond) ==
    PyMin3(Get(sentiment_data.v, "confidence", JNum(50)),
           Get(flag.v, "confidence", JNum(50)),
           Get(respond.v, "confidence", JNum(50)))

\* _compile_results, lines 1837-1850: the dict stored in state["final_result"]
CompiledResult(sentiment_data, level, flag, respond, content, conf) ==
    [ action           |-> JStr(CompileAction(flag, respond)),
      should_respond   |-> Get(respond.v, "should_respond", JBool(FALSE)),
      should_flag      |-> Get(flag.v, "should_flag", JBool(FALSE)),
      concern_level    |-> level,
      sentiment        |-> Get(sentiment_data.v, "sentiment", JStr("neutral")),
      reasoning        |-> JStr(CompileReasoning(sentiment_data, flag, respond)),
      confidence       |-> conf,
      response_content |-> content ]

\* process_client_message, lines 2171-2184: the result returned when the graph raised
SafeDefault ==
    [ action           |-> JStr("flag"),
      should_respond   |-> JBool(FALSE),
      should_flag      |-> JBool(TRUE),
      concern_level    |-> JStr("high"),
      sentiment        |-> JStr("neutral"),
      reasoning        |-> JStr("Processing failed: - Defaulting to human review"),
      confidence       |-> JNum(10),
      response_content |-> JNull ]

-----------------------------------------------------------------------------
(* ArvisoAIAgent.process_client_message: one run of the processing graph *)

\* the weekly message quota
WeeklyLimit == 25

\* largest message count tried
MaxMessageCount == 25

MessageCounts == {0} \cup ((WeeklyLimit - 1)..MaxMessageCount)

\* outcomes of random.uniform(lo, hi) that are tried: both ends and the middle
UniformDraws(lo, hi) == {lo, (lo + hi) \div 2, hi}

\* Catches with a handler for lookup errors only
CatchesLookupOnly(kind) == kind \in {"KeyError", "AttributeError"}

\* the exceptions "except Exception" of process_client_message catches
Catches(kind) == kind \in {"AttributeError", "TypeError"}

\* lines 2164-2184: an exception leaves the graph
GraphRaises(kind) ==
    IF Catches(kind)
    THEN /\ final_result' = SafeDefault
         /\ pc' = "done"
    ELSE /\ final_result' = final_result
         /\ pc' = "raised"

Init ==
    /\ pc = "start"
    /\ raw = <<>>
    /\ parsed = NotRun
    /\ message_count \in MessageCounts
    /\ enable_human_delay \in BOOLEAN
    /\ history_ok \in BOOLEAN
    /\ sentiment_analysis = JNull
    /\ concern_level = JNull
    /\ flag_decision = JNull
    /\ response_decision = JNull
    /\ response_content = JNull
    /\ final_result = JNull
    /\ outcome = [s \in {} |-> "none"]
    /\ calls = <<>>
    /\ slept = <<>>
    /\ ran = <<>>
    /\ args = NoArgs

\* lines 2140-2162: the initial state and the delay before the graph runs
Start ==
    /\ pc = "start"
    /\ UNCHANGED args
    /\ IF enable_human_delay
       THEN \E delay \in UniformDraws(200, 800) : slept' = Append(slept, delay)
       ELSE slept' = slept
    /\ pc' = "analyze_sentiment"
    /\ UNCHANGED <<raw, parsed, message_count, enable_human_delay, history_ok,
                   sentiment_analysis, concern_level, flag_decision, response_decision,
                   response_content, final_result, outcome, calls, ran>>

\* _analyze_sentiment; line 1260 reads every history entry before the call is made
AnalyzeSentiment ==
    /\ pc = "analyze_sentiment"
    /\ UNCHANGED args
    /\ ran' = Append(ran, "analyze_sentiment")
    /\ IF ~history_ok
       THEN /\ GraphRaises("AttributeError")
            /\ outcome' = Put(outcome, "analyze_sentiment", "raised")
            /\ UNCHANGED <<sentiment_analysis, calls, raw>>
       ELSE \E reply \in Replies(SentimentAnswers) :
            /\ calls' = Append(calls, "analyze_sentiment")
            /\ raw' = Append(raw, reply)
            /\ sentiment_analysis' = SentimentResult(reply)
            /\ outcome' = Put(outcome, "analyze_sentiment", OutcomeOf(reply))
            /\ pc' = "assess_concern_level"
            /\ UNCHANGED final_result
    /\ UNCHANGED <<parsed, message_count, enable_human_delay, history_ok,
                   concern_level, flag_decision, response_decision, response_content,
                   slept>>

\* _assess_concern_level
AssessConcernLevel ==
    /\ pc = "assess_concern_level"
    /\ UNCHANGED args
    /\ ran' = Append(ran, "assess_concern_level")
    /\ \E reply \in Replies(ConcernAnswers) :
       /\ calls' = Append(calls, "assess_concern_level")
       /\ raw' = Append(raw, reply)
       /\ concern_level' = ConcernResult(reply)
       /\ outcome' = Put(outcome, "assess_concern_level", OutcomeOf(reply))
    /\ pc' = "decide_flag"
    /\ UNCHANGED <<parsed, message_count, enable_human_delay, history_ok,
                   sentiment_analysis, flag_decision, response_decision,
                   response_content, final_result, slept>>

\* _decide_flag
DecideFlag ==
    /\ pc = "decide_flag"
    /\ UNCHANGED args
    /\ ran' = Append(ran, "decide_flag")
    /\ \E reply \in Replies(FlagAnswers) :
       /\ calls' = Append(calls, "decide_flag")
       /\ raw' = Append(raw, reply)
       /\ flag_decision' = FlagResult(reply)
       /\ outcome' = Put(outcome, "decide_flag", OutcomeOf(reply))
    /\ pc' = "decide_response"
    /\ UNCHANGED <<parsed, message_count, enable_human_delay, history_ok,
                   sentiment_analysis, concern_level, response_decision,
                   response_content, final_result, slept>>

\* _decide_response
DecideResponse ==
    /\ pc = "decide_response"
    /\ UNCHANGED args
    /\ ran' = Append(ran, "decide_response")
    /\ \E reply \in Replies(RespondAnswers) :
       /\ calls' = Append(calls, "decide_response")
       /\ raw' = Append(raw, reply)
       /\ response_decision' = RespondResult(reply)
       /\ outcome' = Put(outcome, "decide_response", OutcomeOf(reply))
    /\ pc' = "generate_response_content"
    /\ UNCHANGED <<parsed, message_count, enable_human_delay, history_ok,
                   sentiment_analysis, concern_level, flag_decision,
                   response_content, final_result, slept>>

\* _generate_response_content
GenerateResponseContent ==
    /\ pc = "generate_response_content"
    /\ UNCHANGED args
    /\ ran' = Append(ran, "generate_response_content")
    /\ IF ~WantsReply(response_decision)
       THEN /\ response_content' = JNull
            /\ UNCHANGED <<calls, outcome, raw>>
       ELSE \E reply \in Replies(GenerateAnswers) :
            /\ calls' = Append(calls, "generate_response_content")
            /\ raw' = Append(raw, reply)
            /\ response_content' = ContentResult(reply)
            /\ outcome' = Put(outcome, "generate_response_content",
                              IF reply.failed THEN "failed" ELSE "parsed")
    /\ pc' = "compile_results"
    /\ UNCHANGED <<parsed, message_count, enable_human_delay, history_ok,
                   sentiment_analysis, concern_level, flag_decision, response_decision,
                   final_result, slept>>

\* _compile_results, and the return of process_client_message
CompileResults ==
    /\ pc = "compile_results"
    /\ UNCHANGED args
    /\ ran' = Append(ran, "compile_results")
    /\ \E conf \in {CompileConfidence(sentiment_analysis, flag_decision, response_decision)} :
       IF conf.raised
       THEN /\ GraphRaises("TypeError")
            /\ outcome' = Put(outcome, "compile_results", "raised")
       ELSE /\ final_result' = CompiledResult(sentiment_analysis, concern_level, flag_decision,
                                              response_decision, response_content, conf.val)
            /\ outcome' = Put(outcome, "compile_results", "compiled")
            /\ pc' = "done"
    /\ UNCHANGED <<raw, parsed, message_count, enable_human_delay, history_ok,
                   sentiment_analysis, concern_level, flag_decision, response_decision,
                   response_content, calls, slept>>

Next ==
    \/ Start
    \/ AnalyzeSentiment
    \/ AssessConcernLevel
    \/ DecideFlag
    \/ DecideResponse
    \/ GenerateResponseContent
    \/ CompileResults

Spec == Init /\ [][Next]_vars

-----------------------------------------------------------------------------
(* Properties *)

Done == pc = "done"

GenerateCalled == \E k \in 1..Len(calls) : calls[k] = "generate_response_content"

RanAs(stage, what) == stage \in DOMAIN outcome /\ outcome[stage] = what

\* the slots of the three deciding stages are written
SlotsWritten ==
    /\ sentiment_analysis.t = "obj"
    /\ flag_decision.t = "obj"
    /\ response_decision.t = "obj"

Compiled == Done /\ RanAs("compile_results", "compiled")

FinalDecisionFields ==
    {"action", "should_respond", "should_flag", "concern_level", "sentiment",
     "reasoning", "confidence", "response_content"}

SentimentKeys ==
    {"sentiment", "confidence", "emotional_indicators", "sentiment_trend",
     "pattern_change", "reasoning"}
FlagKeys    == {"should_flag", "urgency_level", "flag_reasons", "reasoning", "confidence"}
RespondKeys == {"should_respond", "response_type", "tone", "reasoning", "confidence"}

\* C1: _parse_json_response returns on every text, without raising, and what it
\* returns is a mapping (never a list, a scalar or null).
C1_ParserTotal ==
    pc = "parse_done" => parsed.ret /\ ~parsed.raised /\ IsDict(parsed.val)

\* C1 witness: a JSON array of numbers was parsed and gave the empty mapping.
C1_Witness ==
    /\ pc = "parse_done"
    /\ raw = ArrText(<<(<<"1">>), (<<"2">>)>>)
    /\ parsed = Return(JObj(EmptyMap))

\* C2: once the stages have written their slots, each stored stage result holds
\* a value for every recognized key of its stage.
C2_EveryRecognizedKey ==
    SlotsWritten =>
        /\ SentimentKeys \subseteq DOMAIN sentiment_analysis.v
        /\ FlagKeys \subseteq DOMAIN flag_decision.v
        /\ RespondKeys \subseteq DOMAIN response_decision.v

\* C3: the stored concern level, and the one in the final decision, is one of
\* low, medium, high.
C3_ConcernLevelEnum ==
    /\ concern_level.t = "str" => concern_level.v \in {"low", "medium", "high"}
    /\ Done => final_result.concern_level.v \in {"low", "medium", "high"}

\* C4: when the flag decision has should_flag true, no reply is generated: the
\* generate stage issues no call and the final response_content is absent.
C4_FlagSuppressesReply ==
    (Done /\ SlotsWritten /\ Truthy(Get(flag_decision.v, "should_flag", JBool(FALSE))))
        => /\ ~GenerateCalled
           /\ final_result.response_content = JNull

\* C5: with the message count at the weekly limit or above, no reply generation
\* call is made and the returned result signals that the limit was exceeded.
C5_WeeklyLimit ==
    (Done /\ message_count >= WeeklyLimit)
        => /\ ~GenerateCalled
           /\ "limit_exceeded" \in DOMAIN final_result
           /\ final_result["limit_exceeded"] = JBool(TRUE)

AllCallsFailed ==
    /\ RanAs("analyze_sentiment", "failed")
    /\ RanAs("assess_concern_level", "failed")
    /\ RanAs("decide_flag", "failed")
    /\ RanAs("decide_response", "failed")

\* C6: when the generation call fails in every stage, the final decision is
\* flag / no respond / flag / concern high, with a confidence below 0.5.
C6_AllFailSafe ==
    (Done /\ AllCallsFailed)
        => /\ final_result.action = JStr("flag")
           /\ final_result.should_respond = JBool(FALSE)
           /\ final_result.should_flag = JBool(TRUE)
           /\ final_result.concern_level = JStr("high")
           /\ final_result.confidence.t = "num"
           /\ final_result.confidence.v < 50

\* C7: a flag stage that obtained no usable decision (failed call or empty
\* mapping) stores should_flag = true, and the run ends with action flag.
C7_NoSignalFlags ==
    (RanAs("decide_flag", "failed") \/ RanAs("decide_flag", "empty"))
        => /\ Get(flag_decision.v, "should_flag", JNull) = JBool(TRUE)
           /\ Done => final_result.action = JStr("flag")

\* C8: the compiled action is flag when the flag decision's should_flag holds,
\* else respond when the response decision's should_respond holds, else ignore
\* (values judged as the if statements judge them); it is always one of the three.
C8_ActionReduction ==
    /\ Done => final_result.action.v \in {"respond", "flag", "ignore"}
    /\ Compiled =>
         LET flagged  == Truthy(Get(flag_decision.v, "should_flag", JBool(FALSE)))
             responds == Truthy(Get(response_decision.v, "should_respond", JBool(FALSE)))
         IN  /\ flagged => final_result.action.v = "flag"
             /\ (~flagged /\ responds) => final_result.action.v = "respond"
             /\ (~flagged /\ ~responds) => final_result.action.v = "ignore"

\* C8 witness: both decisions are true and the compiled action is flag.
C8_Witness ==
    /\ Compiled
    /\ Get(flag_decision.v, "should_flag", JNull) = JBool(TRUE)
    /\ Get(response_decision.v, "should_respond", JNull) = JBool(TRUE)
    /\ final_result.action.v = "flag"

\* C9: the confidence of the returned decision is the minimum of the three
\* stage confidences, a missing one counting as 0.5.
C9_ConfidenceIsMin ==
    (Done /\ SlotsWritten) =>
        LET cs == { Get(sentiment_analysis.v, "confidence", JNum(50)),
                    Get(flag_decision.v, "confidence", JNum(50)),
                    Get(response_decision.v, "confidence", JNum(50)) }
        IN  /\ \E c \in cs : c = final_result.confidence
            /\ \A c \in cs : (c.t = "num" /\ final_result.confidence.t = "num")
                                 => final_result.confidence.v <= c.v

\* C10: process_client_message never raises to its caller, and what it returns
\* holds every field of the final decision.
C10_AlwaysWellFormed ==
    /\ pc # "raised"
    /\ Done => DOMAIN final_result = FinalDecisionFields

\* C10 witness: a wrongly typed confidence made the compile stage raise, and the
\* caller still got the safe default decision.
C10_Witness ==
    /\ Done
    /\ RanAs("compile_results", "raised")
    /\ final_result = SafeDefault

\* the nodes of the graph in the order of its edges (lines 1246-1252)
GraphOrder ==
    <<"analyze_sentiment", "assess_concern_level", "decide_flag", "decide_response",
      "generate_response_content", "compile_results">>

\* C11: a run that has returned entered the six stages once each, in the order
\* sentiment, concern, flag, respond, generate, compile.
C11_StagesInOrder ==
    Done => ran = GraphOrder

RespondDecided == response_decision.t = "obj" /\ pc \in {"compile_results", "done", "raised"}

\* C12: a run issues at most five generation calls; once the generate stage is
\* passed, the first four are those of sentiment, concern, flag and respond, and
\* the fifth, for the reply, is issued exactly when should_respond holds (as the
\* stage's if judges it); without it the run has issued exactly four.
C12_CallBudget ==
    /\ Len(calls) <= 5
    /\ \A k \in 1..Len(calls) : calls[k] = GraphOrder[k]
    /\ RespondDecided =>
         LET responds == Truthy(Get(response_decision.v, "should_respond", JBool(FALSE)))
         IN  /\ Len(calls) >= 4
             /\ GenerateCalled <=> responds
             /\ ~responds => Len(calls) = 4
             /\ responds => Len(calls) = 5

\* C12 witness: a run that returned after five calls, the last for the reply.
C12_Witness ==
    /\ Compiled
    /\ Len(calls) = 5
    /\ calls[5] = "generate_response_content"
    /\ response_decision.v.should_respond = JBool(TRUE)

-----------------------------------------------------------------------------
(* ArvisoAIAgent._build_conversation_context, lines 1943-2021.  A message  *)
(* is a mapping from field names to values; a content is a sequence of     *)
(* words, or None.  The text returned is the sequence of its lines, a line *)
(* the sequence of its pieces.                                             *)

MaxContextLen == 6

\* the entries a conversation history is drawn from
ContextMessages ==
    { [sender |-> "client", content |-> JStr(<<"Thank", "you">>), timestamp |-> "t1"],
      [sender |-> "client", content |-> JStr(<<"angry", "lawyer", "pain">>), timestamp |-> "t2"],
      [sender |-> "system", content |-> JStr(<<"forwarded", "manager">>), timestamp |-> "t3"],
      [sender |-> "client", content |-> JNull],
      [timestamp |-> "t4"] }

ContextHistories ==
    UNION { [1..n -> ContextMessages] : n \in 0..MaxContextLen }

\* lst[-n:]
PyLast(lst, n) ==
    IF Len(lst) <= n THEN lst ELSE SubSeq(lst, Len(lst) - n + 1, Len(lst))

\* the body of _build_conversation_context: the lines, or the AttributeError of
\* None.lower() at lines 1975, 1993, 2014
BuildConversationContext(conversation_history) ==
    LET Str(n) == <<"0", "1", "2", "3", "4", "5", "6", "7", "8", "9", "10">>[n + 1]
        Field(m, k, default) == IF k \in DOMAIN m THEN m[k] ELSE default
        Content(m) == Field(m, "content", JStr(<<>>))
        Shown(c) == IF c.t = "null" THEN <<"None">> ELSE c.v
        Words(m) == { Lower(Content(m).v[i]) : i \in DOMAIN Content(m).v }
        AnyWord(m, keywords) == Words(m) \cap keywords # {}
        SelectBy(who) == SelectSeq(conversation_history,
                                   LAMBDA m : Field(m, "sender", "none") = who)
        recent == PyLast(conversation_history, 5)
        numbered == [i \in DOMAIN recent |->
                        <<Str(i), ". ", Field(recent[i], "sender", "unknown"), " (",
                          Field(recent[i], "timestamp", ""), "): ">>
                        \o Shown(Content(recent[i]))]
        client_messages == SelectBy("client")
        recent_client_msgs == PyLast(client_messages, 10)
        system_responses == SelectBy("system")
        positive_keywords == {"thank", "good", "great", "appreciate", "happy", "satisfied"}
        negative_keywords == {"angry", "frustrated", "upset", "disappointed", "worried",
                              "concerned"}
        Trend(m) == IF AnyWord(m, positive_keywords) THEN "positive"
                    ELSE IF AnyWord(m, negative_keywords) THEN "negative" ELSE "neutral"
        recent_sentiment_trend == [i \in DOMAIN recent_client_msgs |->
                                      Trend(recent_client_msgs[i])]
        legal_topics == {"settlement", "lawyer", "attorney", "case", "court", "insurance"}
        medical_topics == {"doctor", "treatment", "pain", "injury", "medical", "hospital"}
        timeline_topics == {"when", "how long", "timeline", "status", "update"}
        Mentions(keywords) ==
            Cardinality({i \in DOMAIN recent_client_msgs :
                            AnyWord(recent_client_msgs[i], keywords)})
        dominant_topics ==
            (IF Mentions(legal_topics) > 1 THEN <<"legal">> ELSE <<>>)
            \o (IF Mentions(medical_topics) > 1 THEN <<"medical">> ELSE <<>>)
            \o (IF Mentions(timeline_topics) > 1 THEN <<"timeline">> ELSE <<>>)
        flagged_indicators == {"forwarded", "escalated", "manager", "attorney", "review"}
        last_responses == PyLast(system_responses, 5)
        recent_flags == Cardinality({i \in DOMAIN last_responses :
                                        AnyWord(last_responses[i], flagged_indicators)})
        NoneContent(msgs) == \E i \in DOMAIN msgs : Content(msgs[i]).t = "null"
        responses ==
            IF system_responses = <<>> THEN <<>>
            ELSE << <<"- Previous system responses: ", Str(Len(system_responses))>> >>
                 \o (IF recent_flags > 0
                     THEN << <<"- Recent escalations/flags: ", Str(recent_flags)>> >>
                     ELSE <<>>)
        patterns ==
            IF client_messages = <<>> THEN <<>>
            ELSE << <<"- Recent sentiment trend: ">>
                    \o PyLast(recent_sentiment_trend, 3) >>
                 \o (IF dominant_topics = <<>> THEN <<>>
                     ELSE << <<"- Recurring topics: ">> \o dominant_topics >>)
                 \o responses
    IN  IF conversation_history = <<>>
        THEN Return(<< <<"No previous conversation history">> >>)
        ELSE IF /\ Len(conversation_history) >= 3
                /\ client_messages # <<>>
                /\ \/ NoneContent(recent_client_msgs)
                   \/ NoneContent(last_responses)
        THEN Raise
        ELSE Return(<< <<"RECENT CONVERSATION:">> >> \o numbered
                    \o (IF Len(conversation_history) >= 3
                        THEN << <<"">>, <<"CONVERSATION PATTERNS:">> >> \o patterns
                        ELSE <<>>))

\* one call: what it returns and the history it leaves with the caller
ContextCallTruncating(conversation_history) ==
    [result |-> BuildConversationContext(conversation_history),
     conversation_history |-> PyLast(conversation_history, 5)]

\* the function reads the list (slices, comprehensions, get) and assigns nothing in it
ContextCall(conversation_history) ==
    [result |-> BuildConversationContext(conversation_history),
     conversation_history |-> conversation_history]

\* raw is the history as the caller holds it, args the list the function is handed
InitContext ==
    /\ pc = "context_ready"
    /\ raw \in ContextHistories
    /\ parsed = NotRun
    /\ message_count = 0
    /\ enable_human_delay = FALSE
    /\ history_ok = TRUE
    /\ sentiment_analysis = JNull
    /\ concern_level = JNull
    /\ flag_decision = JNull
    /\ response_decision = JNull
    /\ response_content = JNull
    /\ final_result = JNull
    /\ outcome = [s \in {} |-> "none"]
    /\ calls = <<>>
    /\ slept = <<>>
    /\ ran = <<>>
    /\ args = [conversation_history |-> raw]

\* a call of _build_conversation_context; ran collects what the calls returned
BuildContext ==
    /\ pc \in {"context_ready", "context_once"}
    /\ \E did \in {ContextCall(args.conversation_history)} :
          /\ ran' = Append(ran, did.result)
          /\ args' = [conversation_history |-> did.conversation_history]
    /\ pc' = IF pc = "context_ready" THEN "context_once" ELSE "context_twice"
    /\ UNCHANGED <<raw, parsed, message_count, enable_human_delay, history_ok,
                   sentiment_analysis, concern_level, flag_decision, response_decision,
                   response_content, final_result, outcome, calls, slept>>

NextContext == BuildContext

SpecContext == InitContext /\ [][NextContext]_vars

-----------------------------------------------------------------------------
(* generate_client_insights: one call on one profile and history *)

\* the default of time_period_days
DefaultPeriodDays == 30

MaxHistoryLen == 2

\* a timestamp either fails strptime or parses to an age in whole days
Stamps ==
    {[parses |-> FALSE, age |-> 0]}
        \cup {[parses |-> TRUE, age |-> a]
                : a \in {0, DefaultPeriodDays, DefaultPeriodDays + 1}}

\* a content is text, or None
HistoryMessages ==
    [sender : {"client", "system"}, timestamp : Stamps, content : {JStr(<<"ok">>), JNull}]

Histories == UNION {[1..n -> HistoryMessages] : n \in 0..MaxHistoryLen}

\* _calculate_days_since(incident_date): 0 when the date is absent or unparsable
IncidentAges == {0, 90, 91}

\* lines 2212-2221: the messages not older than the cutoff, and those whose date fails to parse
Recent(msg, days) == ~msg.timestamp.parses \/ msg.timestamp.age <= days

RecentHistory(history, days) == SelectSeq(history, LAMBDA msg : Recent(msg, days))

InsightMessages == <<"m1", "m2", "m3", "m4">>

InsightText(m) ==
    ObjText(<<KV("message", <<Q(m)>>), KV("category", <<Q("satisfaction")>>),
              KV("confidence", <<"0.9">>)>>)

\* a JSON array of the first n insights
InsightArray(n) == ArrText([k \in 1..n |-> InsightText(InsightMessages[k])])

\* what the reasoning model may answer to the insight prompt
InsightAnswers ==
    { InsightArray(n) : n \in 2..4 }
        \cup { InsightText("m1"),
               <<"Sure", WS>> \o InsightText("m2"),
               ObjText(<<KV("category", <<Q("satisfaction")>>)>>),
               ObjText(<<KV("message", <<Q("m1")>>), KV("confidence", <<Q("high")>>)>>),
               ArrText(<<>>),
               Prose }

\* float(x): ValueError on text that is no number, TypeError on None, list, dict
PyFloat(x) ==
    CASE x.t = "num"  -> Return(x)
      [] x.t = "bool" -> Return(JNum(IF x.v THEN 100 ELSE 0))
      [] x.t = "str"  -> IF x.v \in NumLexemes THEN Return(JNum(NumValue(x.v))) ELSE Raise
      [] OTHER        -> Raise

\* datetime.now().strftime('%Y-%m-%d')
Today == JStr("today")

\* lines 2291-2301
FormattedInsight(insight, conf) ==
    JObj([ insight_type        |-> Get(insight.v, "insight_type", JStr("concern")),
           category            |-> Get(insight.v, "category", JStr("communication")),
           message             |-> Get(insight.v, "message", JStr("")),
           date                |-> Get(insight.v, "date", Today),
           status              |-> Get(insight.v, "status", JStr("new")),
           confidence          |-> conf,
           supporting_evidence |-> Get(insight.v, "supporting_evidence", JArr(<<>>)),
           recommended_actions |-> Get(insight.v, "recommended_actions", JArr(<<>>)),
           priority            |-> Get(insight.v, "priority", JStr("medium")) ])

\* lines 2288-2302: the loop over insights_data
RECURSIVE FormatInsights(_, _)
FormatInsights(data, acc) ==
    IF data = <<>> THEN Return(JArr(acc))
    ELSE IF IsDict(Head(data)) /\ Truthy(Get(Head(data).v, "message", JNull))
    THEN Only({ IF conf.raised THEN Raise
                ELSE FormatInsights(Tail(data),
                                    Append(acc, FormattedInsight(Head(data), conf.val)))
              : conf \in {PyFloat(Get(Head(data).v, "confidence", JNum(70)))} })
    ELSE FormatInsights(Tail(data), acc)

\* lines 2279-2305: from the model's text to the returned list
InsightsFromText(text) ==
    Only({ IF p.raised THEN Raise
           ELSE FormatInsights(IF IsDict(p.val) THEN <<p.val>>
                               ELSE IF IsList(p.val) THEN p.val.v
                               ELSE <<>>, <<>>)
         : p \in {ParseJsonResponse(text)} })

\* lines 2319-2330; the count stands for its rendering in the message text
EngagementInsight(n) ==
    JObj([ insight_type        |-> JStr("positive"),
           category            |-> JStr("communication"),
           message             |-> JStr("Client has initiated conversation(s), showing active engagement with the firm."),
           date                |-> Today,
           status              |-> JStr("new"),
           confidence          |-> JNum(70),
           supporting_evidence |-> JArr(<<JNum(n)>>),
           recommended_actions |-> JArr(<<JStr("Continue responsive communication"),
                                          JStr("Monitor for any concerns")>>),
           priority            |-> JStr("low") ])

\* lines 2333-2345
TimelineInsight(days) ==
    JObj([ insight_type        |-> JStr("concern"),
           category            |-> JStr("case_progress"),
           message             |-> JStr("Client may have questions about timeline and progress."),
           date                |-> Today,
           status              |-> JStr("new"),
           confidence          |-> JNum(60),
           supporting_evidence |-> JArr(<<JNum(days)>>),
           recommended_actions |-> JArr(<<JStr("Provide case progress update"),
                                          JStr("Set clear timeline expectations")>>),
           priority            |-> JStr("medium") ])

\* lines 2348-2359
PlaceholderInsight ==
    JObj([ insight_type        |-> JStr("concern"),
           category            |-> JStr("communication"),
           message             |-> JStr("Limited conversation data available. Recommend reaching out to client to establish communication."),
           date                |-> Today,
           status              |-> JStr("new"),
           confidence          |-> JNum(50),
           supporting_evidence |-> JArr(<<JStr("Minimal conversation history")>>),
           recommended_actions |-> JArr(<<JStr("Initiate client contact"),
                                          JStr("Establish regular communication schedule")>>),
           priority            |-> JStr("medium") ])

\* lines 2307-2363: the except branch
FallbackInsights(history, days_since_incident) ==
    LET client_messages == SelectSeq(history, LAMBDA msg : msg.sender = "client")
        engagement == IF history # <<>> /\ Len(client_messages) > 0
                      THEN <<EngagementInsight(Len(client_messages))>> ELSE <<>>
        timeline   == IF history # <<>> /\ days_since_incident > 90
                      THEN <<TimelineInsight(days_since_incident)>> ELSE <<>>
        found      == engagement \o timeline
    IN  JArr(IF found = <<>> THEN <<PlaceholderInsight>> ELSE found)

\* generate_client_insights, lines 2209-2363: the list returned
InsightsResult(history, days_since_incident, reply) ==
    IF reply.failed THEN FallbackInsights(history, days_since_incident)
    ELSE Only({ IF f.raised THEN FallbackInsights(history, days_since_incident) ELSE f.val
              : f \in {InsightsFromText(reply.text)} })

\* lines 2224-2228: building the prompt raises, on a None content, in
\* _build_conversation_context or at line 2388 of _analyze_conversation_for_insights
PromptRaises(recent_history) ==
    \/ BuildConversationContext(recent_history).raised
    \/ \E i \in DOMAIN recent_history :
          recent_history[i].sender = "client" /\ recent_history[i].content = JNull

InsightsOutcome(reply) ==
    IF reply.failed THEN "failed"
    ELSE Only({ IF f.raised THEN "raised" ELSE "formatted"
              : f \in {InsightsFromText(reply.text)} })

InitInsights ==
    /\ pc = "insights_ready"
    /\ raw = <<>>
    /\ parsed = NotRun
    /\ message_count = 0
    /\ enable_human_delay = FALSE
    /\ history_ok = TRUE
    /\ sentiment_analysis = JNull
    /\ concern_level = JNull
    /\ flag_decision = JNull
    /\ response_decision = JNull
    /\ response_content = JNull
    /\ final_result = JNull
    /\ outcome = [s \in {} |-> "none"]
    /\ calls = <<>>
    /\ slept = <<>>
    /\ ran = <<>>
    /\ \E history \in Histories, days \in IncidentAges :
         args = [history |-> history, days_since_incident |-> days,
                 time_period_days |-> DefaultPeriodDays, recent_history |-> <<>>]

GenerateClientInsights ==
    /\ pc = "insights_ready"
    /\ args' = [args EXCEPT !.recent_history =
                                RecentHistory(args.history, args.time_period_days)]
    /\ IF PromptRaises(RecentHistory(args.history, args.time_period_days))
       THEN /\ final_result' = FallbackInsights(args.history, args.days_since_incident)
            /\ outcome' = Put(outcome, "generate_client_insights", "unprompted")
            /\ UNCHANGED <<calls, raw>>
       ELSE \E reply \in Replies(InsightAnswers) :
            /\ calls' = Append(calls, "generate_client_insights")
            /\ raw' = reply.text
            /\ final_result' = InsightsResult(args.history, args.days_since_incident, reply)
            /\ outcome' = Put(outcome, "generate_client_insights", InsightsOutcome(reply))
    /\ pc' = "insights_done"
    /\ UNCHANGED <<parsed, message_count, enable_human_delay, history_ok,
                   sentiment_analysis, concern_level, flag_decision, response_decision,
                   response_content, slept, ran>>

NextInsights == GenerateClientInsights

SpecInsights == InitInsights /\ [][NextInsights]_vars

InsightsDone == pc = "insights_done"

\* C13: generate_client_insights never returns an empty list, and on an empty
\* history it returns exactly one insight, the placeholder with confidence 0.5
\* and category communication.
C13_NeverEmpty ==
    InsightsDone =>
        /\ Len(final_result.v) >= 1
        /\ args.history = <<>> =>
             /\ Len(final_result.v) = 1
             /\ final_result.v[1].v.confidence = JNum(50)
             /\ final_result.v[1].v.category = JStr("communication")

\* C14: an answer that is a JSON array of N objects with messages (N from 2 to 4)
\* gives N insights, one per element in order; a single object gives one insight.
C14_OnePerElement ==
    /\ \A n \in 2..4 :
         (InsightsDone /\ RanAs("generate_client_insights", "formatted")
                       /\ raw = InsightArray(n)) =>
             /\ Len(final_result.v) = n
             /\ \A k \in 1..n : final_result.v[k].v.message = JStr(InsightMessages[k])
    /\ (InsightsDone /\ raw = InsightText("m1")) =>
             /\ Len(final_result.v) = 1
             /\ final_result.v[1].v.message = JStr("m1")

-----------------------------------------------------------------------------
(* The parser on whole JSON documents and on objects inside prose *)

ParseDone == pc = "parse_done"

\* C15: when the whole text is JSON, the parser returns the value if it is an
\* object, the first element of a non-empty array if that is an object, and the
\* empty mapping otherwise.
C15_WholeDocument ==
    (ParseDone /\ JsonLoads(raw).ok) =>
        LET value == JsonLoads(raw).val
        IN  parsed = Return(IF IsDict(value) THEN value
                            ELSE IF IsList(value) /\ Len(value.v) > 0 /\ IsDict(value.v[1])
                                 THEN value.v[1]
                            ELSE JObj(EmptyMap))

\* C15 witness: an array of two objects was parsed and gave the first.
C15_Witness ==
    /\ ParseDone
    /\ raw = ArrText(<<ObjText(<<KV("a", <<"1">>)>>), ObjText(<<KV("b", <<"2">>)>>)>>)
    /\ parsed = Return(JObj([a |-> JNum(100)]))

\* a document with explanatory prose before it, after it, or both
InProse(d) ==
    { <<"Sure", WS>> \o d,  d \o <<WS, "Sure">>,  <<"Sure", WS>> \o d \o <<WS, "Sure">> }

\* C16: a text that is one JSON object surrounded by prose gives that object,
\* also when the object holds arrays.
C16_ObjectInProse ==
    ParseDone =>
        \A d \in Docs :
            (IsDict(JsonLoads(d).val) /\ raw \in InProse(d)) => parsed = Return(JsonLoads(d).val)

-----------------------------------------------------------------------------
(* The function API of the first module: response timing, triage_message,    *)
(* analyze_sentiment, generate_response and its process_client_message.      *)
(* Durations are in hundredths of a second.                                  *)

MaxMessageLength == 200

MessageLengths == {0, 1, 100, 101, MaxMessageLength}

Complexities == {"simple", "normal", "complex"}

\* max(a, b), min(a, b)
PyMax(a, b) == IF a >= b THEN a ELSE b
PyMin(a, b) == IF a <= b THEN a ELSE b

\* line 68: max(1.0, message_length / 250 * 60)
ReadingTime(message_length) == PyMax(100, message_length * 24)

\* lines 71-76
ThinkingDraws(response_complexity) ==
    IF response_complexity = "simple" THEN UniformDraws(200, 500)
    ELSE IF response_complexity = "complex" THEN UniformDraws(800, 1500)
    ELSE UniformDraws(400, 1000)

\* lines 79-80
ConsiderationDraws(message_length) ==
    IF message_length > 100 THEN UniformDraws(200, 600) ELSE {0}

\* ClampDelay without the upper bound
ClampDelayFromBelow(final_delay) == PyMax(300, final_delay)

\* line 92: max(3.0, min(30.0, final_delay))
ClampDelay(final_delay) == PyMax(300, PyMin(3000, final_delay))

\* calculate_human_response_delay: every value the draws can give
Delays(message_length, response_complexity) ==
    { ClampDelay(((ReadingTime(message_length) + thinking + more + typing) * variance) \div 100)
        : thinking \in ThinkingDraws(response_complexity),
          more     \in ConsiderationDraws(message_length),
          typing   \in UniformDraws(300, 800),
          variance \in UniformDraws(75, 125) }

\* what a call did besides returning: suspensions, generation calls, clients asked for
Did(result, sleeps, invokes, steps) ==
    [result |-> result, sleeps |-> sleeps, invokes |-> invokes, steps |-> steps]

\* apply_human_delay(message, response_type, enable_delay)
ApplyHumanDelayOutcomes(message_length, response_type, enable_delay) ==
    IF ~enable_delay THEN {Did(JNum(0), <<>>, <<>>, <<>>)}
    ELSE {Did(JNum(delay), <<delay>>, <<>>, <<>>) : delay \in Delays(message_length, response_type)}

\* lines 156-158, 302-304, 412-414: the delay a function applies before its work
DelayBefore(message_length, response_type, enable_human_delay_arg) ==
    IF enable_human_delay_arg
    THEN ApplyHumanDelayOutcomes(message_length, response_type, TRUE)
    ELSE {Did(JNum(0), <<>>, <<>>, <<>>)}

\* dict.update(extra)
PyUpdate(d, extra) ==
    JObj([k \in (DOMAIN d.v) \cup (DOMAIN extra) |-> IF k \in DOMAIN extra THEN extra[k] ELSE d.v[k]])

\* datetime.now().isoformat()
Now == JStr("now")

\* the error text str(e)
ErrorText == JStr("error")

\* what the triage model may answer
TriageAnswers ==
    { ObjText(<<KV("action", <<Q("flag")>>), KV("should_respond", <<"false">>),
                KV("should_flag", <<"true">>), KV("risk_level", <<Q("high")>>),
                KV("sentiment", <<Q("negative")>>), KV("reasoning", <<Q("r1")>>),
                KV("confidence", <<"0.9">>)>>),
      ObjText(<<KV("action", <<Q("respond")>>), KV("should_respond", <<"true">>),
                KV("should_flag", <<"false">>), KV("risk_level", <<Q("low")>>),
                KV("sentiment", <<Q("positive")>>)>>),
      ObjText(<<KV("action", <<Q("respond")>>), KV("should_respond", <<"true">>)>>),
      ObjText(<<KV("should_flag", <<"true">>), KV("should_respond", <<"true">>)>>),
      ObjText(<<>>),
      ArrText(<<ObjText(<<KV("action", <<Q("ignore")>>)>>)>>),
      Prose }

\* lines 254-262
TriageUnparsed ==
    JObj([ action         |-> JStr("flag"),
           should_respond |-> JBool(FALSE),
           should_flag    |-> JBool(TRUE),
           risk_level     |-> JStr("medium"),
           sentiment      |-> JStr("neutral"),
           reasoning      |-> JStr("Unable to parse AI response"),
           confidence     |-> JNum(50) ])

\* lines 275-285
TriageOnError ==
    JObj([ success        |-> JBool(FALSE),
           error          |-> ErrorText,
           message        |-> JStr("Triage analysis failed"),
           action         |-> JStr("flag"),
           should_respond |-> JBool(FALSE),
           should_flag    |-> JBool(TRUE),
           risk_level     |-> JStr("medium"),
           sentiment      |-> JStr("neutral") ])

\* lines 265-271
TriageSuccess(enable_human_delay_arg, delay_applied) ==
    [ success             |-> JBool(TRUE),
      message             |-> JStr("Triage completed successfully"),
      timestamp           |-> Now,
      human_delay_applied |-> JBool(enable_human_delay_arg),
      delay_seconds       |-> delay_applied ]

\* lines 250-273: from the model's text to the returned dict; update on a non-dict raises
TriageFromText(text, enable_human_delay_arg, delay_applied) ==
    Only({ IF ~p.ok
           THEN PyUpdate(TriageUnparsed, TriageSuccess(enable_human_delay_arg, delay_applied))
           ELSE IF IsDict(p.val)
           THEN PyUpdate(p.val, TriageSuccess(enable_human_delay_arg, delay_applied))
           ELSE TriageOnError
         : p \in {JsonLoads(text)} })

\* triage_message, lines 154-285
TriageMessageOutcomes(a, enable_human_delay_arg) ==
    { IF ~a.api_key
      THEN Did(TriageOnError, before.sleeps, <<>>, <<"get_openai_client">>)
      ELSE Did(IF reply.failed THEN TriageOnError
               ELSE TriageFromText(reply.text, enable_human_delay_arg, before.result),
               before.sleeps, <<"triage_message">>, <<"get_openai_client">>)
        : before \in DelayBefore(a.message_length, "normal", enable_human_delay_arg),
          reply  \in Replies(TriageAnswers) }

\* what the sentiment model of analyze_sentiment may answer
LegacySentimentAnswers ==
    { ObjText(<<KV("sentiment", <<Q("negative")>>), KV("confidence", <<"0.9">>)>>),
      ObjText(<<>>),
      Prose }

\* lines 351-356
LegacySentimentUnparsed ==
    JObj([ sentiment  |-> JStr("neutral"),
           confidence |-> JNum(50),
           keywords   |-> JArr(<<>>),
           intensity  |-> JStr("mild") ])

\* lines 369-376
LegacySentimentOnError ==
    JObj([ success    |-> JBool(FALSE),
           error      |-> ErrorText,
           message    |-> JStr("Sentiment analysis failed"),
           sentiment  |-> JStr("neutral"),
           confidence |-> JNum(0) ])

\* lines 358-364
LegacySentimentSuccess(message_length, enable_human_delay_arg, delay_applied) ==
    [ success              |-> JBool(TRUE),
      message              |-> JStr("Sentiment analysis completed"),
      analyzed_text_length |-> JNum(message_length * 100),
      human_delay_applied  |-> JBool(enable_human_delay_arg),
      delay_seconds        |-> delay_applied ]

\* lines 348-366
LegacySentimentFromText(text, message_length, enable_human_delay_arg, delay_applied) ==
    Only({ IF ~p.ok
           THEN PyUpdate(LegacySentimentUnparsed,
                         LegacySentimentSuccess(message_length, enable_human_delay_arg, delay_applied))
           ELSE IF IsDict(p.val)
           THEN PyUpdate(p.val,
                         LegacySentimentSuccess(message_length, enable_human_delay_arg, delay_applied))
           ELSE LegacySentimentOnError
         : p \in {JsonLoads(text)} })

\* analyze_sentiment(message, use_streaming, enable_human_delay), lines 299-376
AnalyzeSentimentOutcomes(a, enable_human_delay_arg) ==
    { IF ~a.api_key
      THEN Did(LegacySentimentOnError, before.sleeps, <<>>, <<"get_openai_client">>)
      ELSE Did(IF reply.failed THEN LegacySentimentOnError
               ELSE LegacySentimentFromText(reply.text, a.message_length,
                                            enable_human_delay_arg, before.result),
               before.sleeps, <<"analyze_sentiment">>, <<"get_openai_client">>)
        : before \in DelayBefore(a.message_length, "simple", enable_human_delay_arg),
          reply  \in Replies(LegacySentimentAnswers) }

\* OverLimit with the comparison strict
OverLimitStrict(message_count_this_week) == message_count_this_week > WeeklyLimit

\* line 401
OverLimit(message_count_this_week) == message_count_this_week >= WeeklyLimit

\* lines 402-409
LimitExceeded ==
    JObj([ response          |-> JNull,
           action_items      |-> JArr(<<>>),
           success           |-> JBool(FALSE),
           message           |-> JStr("Weekly message limit exceeded - additional charges apply"),
           charge_additional |-> JBool(TRUE),
           limit_exceeded    |-> JBool(TRUE) ])

\* lines 556-563
GenerateOnError ==
    JObj([ success      |-> JBool(FALSE),
           error        |-> ErrorText,
           message      |-> JStr("Response generation failed"),
           response     |-> JNull,
           action_items |-> JArr(<<>>) ])

\* lines 524-541: the follow-ups the message's words call for
ActionItems(mentions) ==
    (IF "medical" \in mentions
     THEN <<JObj([type |-> JStr("medical_follow_up"), priority |-> JStr("medium")])>> ELSE <<>>)
    \o
    (IF "financial" \in mentions
     THEN <<JObj([type |-> JStr("financial_follow_up"), priority |-> JStr("high")])>> ELSE <<>>)

\* lines 510-522: the text of the reply; only the non-streaming path strips it
GeneratedResponse(text, use_streaming) == IF use_streaming THEN text ELSE Strip(text)

\* lines 543-553
GenerateSuccess(a, text, sentiment, message_count_this_week, enable_human_delay_arg, delay_applied) ==
    JObj([ response            |-> JStr(GeneratedResponse(text, a.use_streaming)),
           action_items        |-> JArr(ActionItems(a.mentions)),
           response_tone       |-> sentiment,
           message_count_after |-> JNum((message_count_this_week + 1) * 100),
           success             |-> JBool(TRUE),
           message             |-> JStr("Response generated successfully"),
           human_delay_applied |-> JBool(enable_human_delay_arg),
           delay_seconds       |-> delay_applied,
           feels_human         |-> JBool(TRUE) ])

\* the sub-call's enable_human_delay left at its default
SubcallDelayDefault == TRUE

\* line 441: analyze_sentiment(message, use_streaming=False, enable_human_delay=False)
SubcallDelay == FALSE

\* generate_response, lines 399-563
GenerateResponseOutcomes(a, message_count_this_week, enable_human_delay_arg) ==
    IF OverLimit(message_count_this_week) THEN {Did(LimitExceeded, <<>>, <<>>, <<>>)}
    ELSE
    { IF ~a.api_key
      THEN Did(GenerateOnError, before.sleeps, <<>>, <<"get_openai_client">>)
      ELSE Did(IF reply.failed THEN GenerateOnError
               ELSE GenerateSuccess(a, reply.text,
                                    Get(tone.result.v, "sentiment", JStr("neutral")),
                                    message_count_this_week, enable_human_delay_arg,
                                    before.result),
               before.sleeps \o tone.sleeps,
               tone.invokes \o <<"generate_response">>,
               <<"get_openai_client">> \o tone.steps)
        : before \in DelayBefore(a.message_length, "complex", enable_human_delay_arg),
          tone   \in AnalyzeSentimentOutcomes(a, SubcallDelay),
          reply  \in Replies(GenerateAnswers) }

\* lines 1093-1099: validate_client_data failed
InvalidClient ==
    JObj([ success |-> JBool(FALSE),
           error   |-> ErrorText,
           message |-> JStr("Invalid client data provided") ])

\* lines 1112-1118
ProcessingResult(triage_result, enable_human_delay_arg) ==
    JObj([ triage                     |-> triage_result,
           response                   |-> JNull,
           action_items               |-> JArr(<<>>),
           should_notify_case_manager |-> JBool(FALSE),
           human_timing_applied       |-> JBool(enable_human_delay_arg) ])

\* lines 1143-1153
ProcessingDone(result, response_result) ==
    LET triage_result == result.v.triage
        notify == \/ Truthy(Get(triage_result.v, "should_flag", JBool(FALSE)))
                  \/ Get(triage_result.v, "risk_level", JNull) = JStr("high")
    IN  PyUpdate(result,
                 [ response                   |-> response_result,
                   should_notify_case_manager |-> JBool(notify),
                   success                    |-> JBool(TRUE),
                   message                    |-> JStr("Message processed successfully"),
                   processed_at               |-> Now ])

\* the arguments of one call of the function API
BaseCall ==
    [op |-> "calculate_human_response_delay", message_length |-> 9, mentions |-> {},
     response_complexity |-> "normal", history_len |-> 0, api_key |-> TRUE,
     use_streaming |-> FALSE, client_valid |-> TRUE]

TimingCalls ==
    { [BaseCall EXCEPT !.op = op, !.message_length = n, !.response_complexity = c]
        : op \in {"calculate_human_response_delay", "apply_human_delay"},
          n \in MessageLengths, c \in Complexities }

MessageCalls ==
    { [BaseCall EXCEPT !.op = op, !.message_length = m[1], !.mentions = m[2],
                       !.api_key = key, !.use_streaming = streaming]
        : op \in {"triage_message", "generate_response"},
          m \in {<<9, {}>>, <<120, {"medical", "financial"}>>},
          key \in BOOLEAN, streaming \in BOOLEAN }

ProcessCalls ==
    { [BaseCall EXCEPT !.op = "process_client_message", !.history_len = h,
                       !.api_key = key, !.client_valid = valid]
        : h \in {0, WeeklyLimit - 1}, key \in BOOLEAN, valid \in BOOLEAN }

InitLegacy ==
    /\ pc = "called"
    /\ raw = <<>>
    /\ parsed = NotRun
    /\ args \in TimingCalls \cup MessageCalls \cup ProcessCalls
    /\ message_count \in IF args.op = "generate_response" THEN MessageCounts ELSE {0}
    /\ enable_human_delay \in IF args.op = "calculate_human_response_delay"
                              THEN {FALSE} ELSE BOOLEAN
    /\ history_ok = TRUE
    /\ sentiment_analysis = JNull
    /\ concern_level = JNull
    /\ flag_decision = JNull
    /\ response_decision = JNull
    /\ response_content = JNull
    /\ final_result = JNull
    /\ outcome = [s \in {} |-> "none"]
    /\ calls = <<>>
    /\ slept = <<>>
    /\ ran = <<>>

\* the call returned: its result and what it did are recorded
Returns(did, to) ==
    /\ final_result' = did.result
    /\ slept' = slept \o did.sleeps
    /\ calls' = calls \o did.invokes
    /\ ran' = ran \o did.steps
    /\ pc' = to

LegacyUnchanged ==
    UNCHANGED <<raw, parsed, message_count, enable_human_delay, history_ok,
                sentiment_analysis, concern_level, flag_decision, response_decision,
                response_content, outcome, args>>

CalculateHumanResponseDelay ==
    /\ pc = "called"
    /\ args.op = "calculate_human_response_delay"
    /\ \E delay \in Delays(args.message_length, args.response_complexity) :
         Returns(Did(JNum(delay), <<>>, <<>>, <<>>), "returned")
    /\ LegacyUnchanged

ApplyHumanDelay ==
    /\ pc = "called"
    /\ args.op = "apply_human_delay"
    /\ \E did \in ApplyHumanDelayOutcomes(args.message_length, args.response_complexity,
                                          enable_human_delay) :
         Returns(did, "returned")
    /\ LegacyUnchanged

TriageMessage ==
    /\ pc = "called"
    /\ args.op = "triage_message"
    /\ \E did \in TriageMessageOutcomes(args, enable_human_delay) : Returns(did, "returned")
    /\ LegacyUnchanged

GenerateResponse ==
    /\ pc = "called"
    /\ args.op = "generate_response"
    /\ \E did \in GenerateResponseOutcomes(args, message_count, enable_human_delay) :
         Returns(did, "returned")
    /\ LegacyUnchanged

\* process_client_message of the first module, lines 1091-1118: validation and triage
ProcessTriage ==
    /\ pc = "called"
    /\ args.op = "process_client_message"
    /\ IF ~args.client_valid
       THEN Returns(Did(InvalidClient, <<>>, <<>>, <<>>), "returned")
       ELSE \E did \in TriageMessageOutcomes(args, enable_human_delay) :
              Returns(Did(ProcessingResult(did.result, enable_human_delay),
                          did.sleeps, did.invokes, did.steps), "triaged")
    /\ LegacyUnchanged

\* lines 1120-1153: the response when triage asks for one, and the result
ProcessRespond ==
    /\ pc = "triaged"
    /\ IF Truthy(Get(final_result.v.triage.v, "should_respond", JBool(FALSE)))
       THEN \E did \in GenerateResponseOutcomes(args, args.history_len + 1,
                                                enable_human_delay) :
              Returns(Did(ProcessingDone(final_result, did.result),
                          did.sleeps, did.invokes, did.steps), "returned")
       ELSE Returns(Did(ProcessingDone(final_result, JNull), <<>>, <<>>, <<>>), "returned")
    /\ LegacyUnchanged

NextLegacy ==
    \/ CalculateHumanResponseDelay
    \/ ApplyHumanDelay
    \/ TriageMessage
    \/ GenerateResponse
    \/ ProcessTriage
    \/ ProcessRespond

SpecLegacy == InitLegacy /\ [][NextLegacy]_vars

Returned(op) == pc = "returned" /\ args.op = op

\* C17: for every message length and every complexity of simple, normal, complex,
\* whatever the random draws, calculate_human_response_delay returns between
\* 3.0 and 30.0 seconds.
C17_DelayWithinBounds ==
    (Returned("calculate_human_response_delay") /\ args.response_complexity \in Complexities)
        => /\ final_result.t = "num"
           /\ 300 <= final_result.v
           /\ final_result.v <= 3000

\* C17 witness: on the longest message the sum exceeds 30 seconds and 30.0 is returned.
C17_Witness ==
    /\ Returned("calculate_human_response_delay")
    /\ args.message_length = MaxMessageLength
    /\ args.response_complexity = "complex"
    /\ final_result = JNum(3000)

\* the agent's process_client_message and the function API, side by side
InitAll == Init \/ InitLegacy

NextAll == Next \/ NextLegacy

SpecAll == InitAll /\ [][NextAll]_vars

\* C18: with the delay disabled apply_human_delay returns 0 and does not suspend,
\* and neither a run of the agent's process_client_message nor one of the first
\* module's (triage, generate_response and its sentiment sub-call) suspends.
C18_NoDelayWhenDisabled ==
    /\ (Returned("apply_human_delay") /\ ~enable_human_delay)
           => final_result = JNum(0) /\ slept = <<>>
    /\ ~enable_human_delay => slept = <<>>

\* C18 witness: a first-module run with the delay disabled made the triage, sentiment
\* and reply calls and returned without one suspension.
C18_Witness ==
    /\ Returned("process_client_message")
    /\ ~enable_human_delay
    /\ calls = <<"triage_message", "analyze_sentiment", "generate_response">>
    /\ final_result.v.response.v.success = JBool(TRUE)
    /\ slept = <<>>

\* C19: generate_response with a weekly count of 25 or more returns
\* limit_exceeded and charge_additional true and no response, having made no
\* delay, built no client and issued no call; below 25 neither flag is true.
C19_LimitCheckedFirst ==
    Returned("generate_response") =>
        /\ message_count >= WeeklyLimit =>
               /\ Get(final_result.v, "limit_exceeded", JNull) = JBool(TRUE)
               /\ Get(final_result.v, "charge_additional", JNull) = JBool(TRUE)
               /\ "response" \in DOMAIN final_result.v
               /\ final_result.v.response = JNull
               /\ slept = <<>>
               /\ calls = <<>>
               /\ ran = <<>>
        /\ message_count < WeeklyLimit =>
               /\ Get(final_result.v, "limit_exceeded", JNull) # JBool(TRUE)
               /\ Get(final_result.v, "charge_additional", JNull) # JBool(TRUE)

\* C19 witness: a call at exactly 25 with the delay enabled returned the limit result.
C19_Witness ==
    /\ Returned("generate_response")
    /\ message_count = WeeklyLimit
    /\ enable_human_delay
    /\ final_result = LimitExceeded
    /\ slept = <<>>

TriageKeys == {"action", "should_respond", "should_flag", "risk_level", "sentiment", "success"}

\* C20: every result of triage_message holds the keys action, should_respond,
\* should_flag, risk_level, sentiment and success.
C20_TriageKeys ==
    Returned("triage_message") => TriageKeys \subseteq DOMAIN final_result.v

-----------------------------------------------------------------------------
(* Claims about the result of process_client_message *)

\* C22: a run on the message "Can I sue the other driver for more money?" ends with
\* should_flag true and action flag.  No stage reads the message except to put it in a
\* prompt, so the runs on that message are the runs of Spec: each answer of
\* FlagAnswers is an answer the flag call can give for it.
C22_LegalAdviceFlagged ==
    Done => /\ final_result.should_flag = JBool(TRUE)
            /\ final_result.action = JStr("flag")

\* C23: in every result of process_client_message, should_respond and should_flag
\* are booleans, whatever type the model gave them.
C23_DecisionsAreBooleans ==
    Done => /\ final_result.should_respond.t = "bool"
            /\ final_result.should_flag.t = "bool"

\* C24: the sentiment of every result of process_client_message is positive, neutral
\* or negative; it is neutral when the sentiment call failed or its output held no
\* object.
C24_SentimentEnum ==
    Done => /\ final_result.sentiment \in {JStr("positive"), JStr("neutral"), JStr("negative")}
            /\ (RanAs("analyze_sentiment", "failed") \/ RanAs("analyze_sentiment", "empty"))
                   => final_result.sentiment = JStr("neutral")

\* C24 witness: the sentiment answer parsed to an object, and its value ("ecstatic",
\* the one parsed answer that is neither positive nor negative) was replaced by neutral.
C24_Witness ==
    /\ Compiled
    /\ RanAs("analyze_sentiment", "parsed")
    /\ final_result.sentiment = JStr("neutral")

\* C25: with enable_human_delay true, process_client_message sleeps exactly once,
\* before the first stage, and for between 3.0 and 30.0 seconds.
C25_OneDelayWithinBounds ==
    (enable_human_delay /\ pc # "start")
        => /\ Len(slept) = 1
           /\ 300 <= slept[1] /\ slept[1] <= 3000

\* C26: the compiled reasoning is the labelled values of sentiment reasoning, sentiment
\* pattern_change, flag reasoning, flag pattern_context, respond reasoning and respond
\* conversation_context, in that order, joined by " | ", leaving out each value that is
\* absent or empty; it is the empty string when none is there.
C26_ReasoningCompiled ==
    Compiled =>
        LET slots == << <<"Sentiment Analysis: ", sentiment_analysis.v, "reasoning">>,
                        <<"Pattern Change: ", sentiment_analysis.v, "pattern_change">>,
                        <<"Flag Decision: ", flag_decision.v, "reasoning">>,
                        <<"Pattern Context: ", flag_decision.v, "pattern_context">>,
                        <<"Response Decision: ", response_decision.v, "reasoning">>,
                        <<"Conversation Context: ", response_decision.v,
                          "conversation_context">> >>
            there == SelectSeq(slots, LAMBDA s : /\ s[3] \in DOMAIN s[2]
                                                 /\ s[2][s[3]].t = "str"
                                                 /\ s[2][s[3]].v # "")
            joined[n \in 0..Len(there)] ==
                IF n = 0 THEN ""
                ELSE (IF n = 1 THEN "" ELSE joined[n - 1] \o " | ")
                     \o there[n][1] \o there[n][2][there[n][3]].v
        IN  final_result.reasoning = JStr(joined[Len(there)])

\* C26 witness: the sentiment reasoning is empty and the flag pattern_context absent,
\* while the sentiment pattern_change, the flag reasoning and the respond reasoning
\* are there.
C26_Witness ==
    /\ Compiled
    /\ Get(sentiment_analysis.v, "reasoning", JNull) = JStr("")
    /\ "pattern_context" \notin DOMAIN flag_decision.v
    /\ final_result.reasoning =
          JStr("Pattern Change: escalating | Flag Decision: "
               \o "Decision failed, defaulting to human review for safety"
               \o " | Response Decision: r3 | Conversation Context: p3")

-----------------------------------------------------------------------------
(* Claims about generate_client_insights and the reply slot *)

\* C27: the history generate_client_insights analyses is, in the original order, the
\* messages whose timestamp fails to parse and those not older than time_period_days;
\* and each invocation issues exactly one generation call.
C27_WindowAndOneCall ==
    InsightsDone =>
        LET history == args.history
            kept[n \in 0..Len(history)] ==
                IF n = 0 THEN <<>>
                ELSE IF \/ ~history[n].timestamp.parses
                        \/ history[n].timestamp.age <= args.time_period_days
                     THEN Append(kept[n - 1], history[n])
                     ELSE kept[n - 1]
        IN  /\ args.recent_history = kept[Len(history)]
            /\ calls = <<"generate_client_insights">>

-----------------------------------------------------------------------------
(* A caller that invokes process_client_message three times on one agent:  *)
(* a first run, any run in between, and the first run again (same inputs,  *)
(* same replies of the generation client).                                 *)

\* the profile and the histories the caller passes
SessionInputs ==
    LET thanks == [sender |-> "client", content |-> JStr(<<"Thank", "you">>),
                   timestamp |-> "t1"]
        none   == [sender |-> "client", content |-> JNull]
    IN  [client_details : {[name |-> "Carlos", case_manager |-> "Maria"]},
         conversation_history : {<<thanks, thanks, thanks>>, <<thanks, none, thanks>>}]

\* CallerData when the run also records the message in the list it was given
CallerDataGrown(held) ==
    [held EXCEPT !.conversation_history =
                    Append(@, [sender |-> "client", content |-> JStr(<<"Thank", "you">>)])]

\* what the caller's profile and list hold when the run has returned: the run puts
\* them in the state (lines 2144-2147) and the stages only read them
CallerData(held) == held

\* line 1260: _build_conversation_context raises on a None content
HistoryOk(conversation_history) == ~BuildConversationContext(conversation_history).raised

InitSession ==
    /\ pc = "start"
    /\ raw = <<>>
    /\ parsed = NotRun
    /\ message_count = 0
    /\ enable_human_delay = FALSE
    /\ \E given \in SessionInputs :
         /\ args = [held |-> given, given |-> given, first |-> given, run |-> 1,
                    results |-> <<>>, replies |-> <<>>]
         /\ history_ok = HistoryOk(given.conversation_history)
    /\ sentiment_analysis = JNull
    /\ concern_level = JNull
    /\ flag_decision = JNull
    /\ response_decision = JNull
    /\ response_content = JNull
    /\ final_result = JNull
    /\ outcome = [s \in {} |-> "none"]
    /\ calls = <<>>
    /\ slept = <<>>
    /\ ran = <<>>

\* a step of the run under way; the run in between gets failed calls throughout or
\* prose throughout, the third run the replies of the first
RunStep ==
    /\ Next
    /\ args.run = 2 => \A i \in DOMAIN raw' :
                           /\ raw'[i].failed \/ raw'[i].text = Prose
                           /\ raw'[i] = raw'[1]
    /\ args.run = 3 => /\ Len(raw') <= Len(args.replies)
                       /\ raw' = SubSeq(args.replies, 1, Len(raw'))

\* process_client_message returns its result to the caller
RunReturns ==
    /\ pc = "done"
    /\ pc' = "returned"
    /\ args' = [args EXCEPT !.held = CallerData(@),
                            !.results = Append(@, final_result),
                            !.replies = IF args.run = 1 THEN raw ELSE @]
    /\ UNCHANGED <<raw, parsed, message_count, enable_human_delay, history_ok,
                   sentiment_analysis, concern_level, flag_decision, response_decision,
                   response_content, final_result, outcome, calls, slept, ran>>

\* the next call on the same agent: lines 2143-2156 build a new state
NextMessage ==
    /\ pc = "returned"
    /\ args.run < 3
    /\ pc' = "start"
    /\ \E given \in IF args.run = 1 THEN SessionInputs ELSE {args.first} :
         /\ args' = [args EXCEPT !.held = given, !.given = given, !.run = @ + 1]
         /\ history_ok' = HistoryOk(given.conversation_history)
    /\ raw' = <<>>
    /\ sentiment_analysis' = JNull
    /\ concern_level' = JNull
    /\ flag_decision' = JNull
    /\ response_decision' = JNull
    /\ response_content' = JNull
    /\ final_result' = JNull
    /\ outcome' = [s \in {} |-> "none"]
    /\ calls' = <<>>
    /\ slept' = <<>>
    /\ ran' = <<>>
    /\ UNCHANGED <<parsed, message_count, enable_human_delay>>

NextSession ==
    \/ RunStep
    \/ RunReturns
    \/ NextMessage

SpecSession == InitSession /\ [][NextSession]_vars

-----------------------------------------------------------------------------
(* create_conversation_graph, lines 898-990: triage, then flag_for_human,  *)
(* generate_response or end.  args is the call's data with the graph's     *)
(* state: messages (their number) and triage_result.                       *)

\* state.get("triage_result", {}) finds no key
Absent == [t |-> "absent", v |-> "absent"]

\* the routing function should_respond, lines 952-961; None.get raises AttributeError
ShouldRespond(triage_result) ==
    LET found == IF triage_result = Absent THEN JObj(EmptyMap) ELSE triage_result
    IN  IF found.t # "obj" THEN "raised"
        ELSE IF Truthy(Get(found.v, "should_flag", JNull)) THEN "flag_for_human"
        ELSE IF Truthy(Get(found.v, "should_respond", JNull)) THEN "generate_response"
        ELSE "end"

\* the state the graph is invoked with: triage_result is None or left out
InitConversation ==
    /\ pc = "triage"
    /\ raw = <<>>
    /\ parsed = NotRun
    /\ message_count \in {0, 1, WeeklyLimit}
    /\ enable_human_delay = TRUE
    /\ history_ok = TRUE
    /\ sentiment_analysis = JNull
    /\ concern_level = JNull
    /\ flag_decision = JNull
    /\ response_decision = JNull
    /\ response_content = JNull
    /\ final_result = JNull
    /\ outcome = [s \in {} |-> "none"]
    /\ calls = <<>>
    /\ slept = <<>>
    /\ ran = <<>>
    /\ \E key \in BOOLEAN, given \in {JNull, Absent} :
         args = [op |-> "conversation_graph", message_length |-> 9, mentions |-> {},
                 response_complexity |-> "normal", history_len |-> 0, api_key |-> key,
                 use_streaming |-> FALSE, client_valid |-> TRUE,
                 messages |-> message_count, triage_result |-> given]

ConversationUnchanged ==
    UNCHANGED <<raw, parsed, message_count, enable_human_delay, history_ok,
                sentiment_analysis, concern_level, flag_decision, response_decision,
                response_content, outcome>>

\* triage_node, lines 906-923, and the conditional edge that follows it
TriageNode ==
    /\ pc = "triage"
    /\ \E did \in IF args.messages > 0 THEN TriageMessageOutcomes(args, TRUE)
                  ELSE {Did(args.triage_result, <<>>, <<>>, <<>>)} :
         /\ args' = [args EXCEPT !.triage_result = did.result]
         /\ slept' = slept \o did.sleeps
         /\ calls' = calls \o did.invokes
         /\ pc' = ShouldRespond(did.result)
    /\ ran' = Append(ran, "triage")
    /\ UNCHANGED final_result
    /\ ConversationUnchanged

\* response_node, lines 925-950; state["response_generated"] is kept in final_result
ResponseNode ==
    /\ pc = "generate_response"
    /\ IF args.triage_result.t = "obj"
          /\ Truthy(Get(args.triage_result.v, "should_respond", JNull))
       THEN \E did \in GenerateResponseOutcomes(args, args.messages, TRUE) :
              /\ final_result' = IF Truthy(Get(did.result.v, "success", JNull))
                                 THEN did.result.v.response ELSE final_result
              /\ slept' = slept \o did.sleeps
              /\ calls' = calls \o did.invokes
       ELSE UNCHANGED <<final_result, slept, calls>>
    /\ ran' = Append(ran, "generate_response")
    /\ pc' = "end"
    /\ UNCHANGED args
    /\ ConversationUnchanged

\* the node flag_for_human, line 969, and its edge to end
FlagForHuman ==
    /\ pc = "flag_for_human"
    /\ ran' = Append(ran, "flag_for_human")
    /\ pc' = "end"
    /\ UNCHANGED <<args, final_result, slept, calls>>
    /\ ConversationUnchanged

\* the node end, line 970
EndNode ==
    /\ pc = "end"
    /\ ran' = Append(ran, "end")
    /\ pc' = "finished"
    /\ UNCHANGED <<args, final_result, slept, calls>>
    /\ ConversationUnchanged

NextConversation ==
    \/ TriageNode
    \/ ResponseNode
    \/ FlagForHuman
    \/ EndNode

SpecConversation == InitConversation /\ [][NextConversation]_vars

\* C30: in the conversation graph a triage result with should_flag true sends the run
\* to flag_for_human and the response node never runs; the response node runs only
\* with should_flag false and should_respond true; and no run stops short of the end
\* node.
C30_FlagDominates ==
    LET Entered(node) == \E k \in DOMAIN ran : ran[k] = node
        Asks(key) == /\ args.triage_result.t = "obj"
                     /\ Truthy(Get(args.triage_result.v, key, JNull))
    IN  /\ (pc # "triage" /\ Asks("should_flag"))
               => /\ ~Entered("generate_response")
                  /\ pc = "flag_for_human" \/ Entered("flag_for_human")
        /\ Entered("generate_response") => ~Asks("should_flag") /\ Asks("should_respond")
        /\ pc # "raised"
        /\ pc = "finished" => ran[Len(ran)] = "end"

====
